---- MODULE Spec2Model ----
(***************************************************************************)
(* CollisionMap (src/src/components.rs): a bitset-backed occupancy grid    *)
(* with 2D <-> linear index conversion, and its BaseMap implementation     *)
(* (is_opaque, get_available_exits, get_pathing_distance).                 *)
(*                                                                         *)
(* Integer widths are scaled down: u32 is a U32Bits-bit word and usize a   *)
(* word of twice that width, so that wrap-around is within reach of the    *)
(* model checker.  The build is either with overflow checks (arithmetic    *)
(* overflow panics) or without (arithmetic wraps); overflow_checks holds   *)
(* the choice.  A panic leaves the map as it was.                          *)
(***************************************************************************)
EXTENDS Integers, Sequences, FiniteSets

VARIABLES overflow_checks, map, created, expected, last, start, pos, steps, via, gap

walk == <<start, pos, steps, via, gap>>
vars == <<overflow_checks, map, created, expected, last, walk>>

-----------------------------------------------------------------------------
(* Bounds of the model *)

U32Bits == 5
MaxW == 2
MaxH == 2
MaxCoord == 2
MaxValidW == 3
MaxValidH == 2
MaxValidCells == 6
MaxIdx == 4
MaxAdapterW == 3
MaxAdapterH == 3
MaxCells == 9
MaxDistCells == 4
MaxWalkCells == 6
MaxSteps == 6
MaxWallSteps == 12

(* Program constants *)
UnitCost == 1
WallSize == 5

Modulus == 2 ^ U32Bits
UsizeModulus == Modulus * Modulus

-----------------------------------------------------------------------------
(* Results of calls: a value, or a panic *)

Ok(v) == [ok |-> TRUE, val |-> v]
Panicked == [ok |-> FALSE, val |-> 0]

(* Machine arithmetic: the exact result v in a word of m values *)
Arith(v, m) ==
    IF 0 <= v /\ v < m THEN Ok(v)
    ELSE IF overflow_checks THEN Panicked
    ELSE Ok(v % m)

U32Mul(a, b) == Arith(a * b, Modulus)
U32Add(a, b) == Arith(a + b, Modulus)
U32Sub(a, b) == Arith(a - b, Modulus)
UsizeAdd(a, b) == Arith(a + b, UsizeModulus)
UsizeSub(a, b) == Arith(a - b, UsizeModulus)
AsU32(n) == n % Modulus

-----------------------------------------------------------------------------
(* BitSet: the set of the indices added *)

BitSetAdd(bs, id) == bs \cup {id}
BitSetRemove(bs, id) == bs \ {id}
BitSetContains(bs, id) == id \in bs
BitSetClear(bs) == {}

-----------------------------------------------------------------------------
(* CollisionMap *)

new(width, height) ==
    LET cap == U32Mul(width, height)
    IN  IF cap.ok
        THEN Ok([bitset |-> {}, width |-> width, height |-> height])
        ELSE Panicked

index_of(self, x, y) ==
    LET m == U32Mul(y, self.width)
        idx == IF m.ok THEN U32Add(m.val, x) ELSE Panicked
        cap == U32Mul(self.width, self.height)
        bound == IF cap.ok THEN U32Sub(cap.val, 1) ELSE Panicked
    IN  IF idx.ok /\ bound.ok /\ idx.val <= bound.val
        THEN Ok(idx.val)
        ELSE Panicked

(* Mutant: the row length taken from height *)
position_of_by_height(self, idx) ==
    IF self.width > 0 /\ self.height > 0
    THEN Ok(<<idx % self.height, idx \div self.height>>)
    ELSE Panicked

position_of(self, idx) ==
    IF self.width > 0 /\ self.height > 0
    THEN Ok(<<idx % self.width, idx \div self.width>>)
    ELSE Panicked

set(self, x, y) ==
    LET i == index_of(self, x, y)
    IN  IF i.ok
        THEN Ok([self EXCEPT !.bitset = BitSetAdd(@, i.val)])
        ELSE Panicked

(* Mutant: the coordinates swapped *)
unset_swapped(self, x, y) ==
    LET i == index_of(self, y, x)
    IN  IF i.ok
        THEN Ok([self EXCEPT !.bitset = BitSetRemove(@, i.val)])
        ELSE Panicked

unset(self, x, y) ==
    LET i == index_of(self, x, y)
    IN  IF i.ok
        THEN Ok([self EXCEPT !.bitset = BitSetRemove(@, i.val)])
        ELSE Panicked

is_set(self, x, y) ==
    LET i == index_of(self, x, y)
    IN  IF i.ok
        THEN Ok(BitSetContains(self.bitset, i.val))
        ELSE Panicked

size(self) == <<self.width, self.height>>

clear(self) == [self EXCEPT !.bitset = BitSetClear(@)]

-----------------------------------------------------------------------------
(* f32: integers of magnitude up to 2^F32Mant are exact, larger ones are   *)
(* rounded to the nearest multiple of the spacing, ties to even            *)

F32Mant == 24

RECURSIVE F32Spacing(_, _)
F32Spacing(n, q) == IF n < (2 ^ F32Mant) * q THEN q ELSE F32Spacing(n, 2 * q)

F32Round(n) ==
    LET q == F32Spacing(n, 1)
        lo == (n \div q) * q
        r == n - lo
    IN  IF 2 * r < q THEN lo
        ELSE IF 2 * r > q THEN lo + q
        ELSE IF (n \div q) % 2 = 0 THEN lo ELSE lo + q

Abs(i) == IF i < 0 THEN 0 - i ELSE i

Range(f) == {f[i] : i \in DOMAIN f}

(* Mutant: the difference taken in u32 before the conversion *)
F32SqDiffUnsigned(a, b) ==
    LET d == F32Round((a - b) % Modulus)
    IN  F32Round(d * d)

(* (a as f32 - b as f32).powf(2.0): the sign is lost in the square *)
F32SqDiff(a, b) ==
    LET d == F32Round(Abs(F32Round(a) - F32Round(b)))
    IN  F32Round(d * d)

-----------------------------------------------------------------------------
(* BaseMap for CollisionMap *)

is_opaque(self, idx) == BitSetContains(self.bitset, AsU32(idx))

(* Mutant: the test of is_opaque inverted *)
ExitIfOpaque(self, n) ==
    IF ~n.ok THEN Panicked
    ELSE IF is_opaque(self, n.val) THEN Ok(<< <<n.val, UnitCost>> >>)
    ELSE Ok(<< >>)

Exit(self, n) ==
    IF ~n.ok THEN Panicked
    ELSE IF ~is_opaque(self, n.val) THEN Ok(<< <<n.val, UnitCost>> >>)
    ELSE Ok(<< >>)

(* Mutant: no test of the right edge *)
ExitRightNoEdge(self, idx) ==
    IF self.width = 0 THEN Panicked
    ELSE Exit(self, UsizeAdd(idx, 1))

ExitRight(self, idx) ==
    IF self.width = 0 THEN Panicked
    ELSE LET w1 == UsizeSub(self.width, 1)
         IN  IF ~w1.ok THEN Panicked
             ELSE IF (idx % self.width) < w1.val
                  THEN Exit(self, UsizeAdd(idx, 1))
                  ELSE Ok(<< >>)

ExitLeft(self, idx) ==
    IF self.width = 0 THEN Panicked
    ELSE IF (idx % self.width) > 0
         THEN Exit(self, UsizeSub(idx, 1))
         ELSE Ok(<< >>)

ExitDown(self, idx) ==
    IF self.width = 0 THEN Panicked
    ELSE LET h1 == UsizeSub(self.height, 1)
         IN  IF ~h1.ok THEN Panicked
             ELSE IF (idx \div self.width) < h1.val
                  THEN Exit(self, UsizeAdd(idx, self.width))
                  ELSE Ok(<< >>)

(* Mutant: > for >= *)
ExitUpStrict(self, idx) ==
    IF idx > self.width
    THEN Exit(self, UsizeSub(idx, self.width))
    ELSE Ok(<< >>)

ExitUp(self, idx) ==
    IF idx >= self.width
    THEN Exit(self, UsizeSub(idx, self.width))
    ELSE Ok(<< >>)

(* Mutant: no exits out of an occupied cell *)
get_available_exits_checked(self, idx) ==
    LET r == ExitRight(self, idx)
        l == ExitLeft(self, idx)
        d == ExitDown(self, idx)
        u == ExitUp(self, idx)
    IN  IF r.ok /\ l.ok /\ d.ok /\ u.ok
        THEN IF is_opaque(self, idx) THEN Ok(<< >>)
             ELSE Ok(r.val \o l.val \o d.val \o u.val)
        ELSE Panicked

get_available_exits(self, idx) ==
    LET r == ExitRight(self, idx)
        l == ExitLeft(self, idx)
        d == ExitDown(self, idx)
        u == ExitUp(self, idx)
    IN  IF r.ok /\ l.ok /\ d.ok /\ u.ok
        THEN Ok(r.val \o l.val \o d.val \o u.val)
        ELSE Panicked

(* The f32 result is the square root of the value returned here *)
get_pathing_distance(self, idx1, idx2) ==
    LET p1 == position_of(self, AsU32(idx1))
        p2 == position_of(self, AsU32(idx2))
    IN  IF p1.ok /\ p2.ok
        THEN Ok([sqrt_of |-> F32Round(F32SqDiff(p2.val[1], p1.val[1])
                                      + F32SqDiff(p2.val[2], p1.val[2]))])
        ELSE Panicked

-----------------------------------------------------------------------------
(* State: the build, the map, the arguments it was created with, the cells *)
(* that a set has marked and no later unset or clear has erased, the last  *)
(* call with its result, and a walk over the exits: where it started,      *)
(* where it is, the steps taken and whether it has passed the gap          *)

Dims == (0 .. MaxW) \X (0 .. MaxH)
Coords == 0 .. MaxCoord
Indices == 0 .. MaxIdx
NoCall == [op |-> "new", args |-> <<>>, ret |-> Ok(<<>>)]

Call(op, args, ret) == [op |-> op, args |-> args, ret |-> ret]

NoWalk ==
    /\ start = -1
    /\ pos = -1
    /\ steps = 0
    /\ via = FALSE
    /\ gap = -1

Created(dims) ==
    /\ overflow_checks \in BOOLEAN
    /\ \E d \in dims :
          /\ new(d[1], d[2]).ok
          /\ map = new(d[1], d[2]).val
          /\ created = d
    /\ expected = {}
    /\ last = NoCall
    /\ NoWalk

Init == Created(Dims)

InGrid(x, y) == x < created[1] /\ y < created[2]

Set(x, y) ==
    LET r == set(map, x, y)
    IN  /\ map' = IF r.ok THEN r.val ELSE map
        /\ last' = Call("set", <<x, y>>, IF r.ok THEN Ok(<<>>) ELSE Panicked)
        /\ expected' = IF r.ok /\ InGrid(x, y)
                       THEN expected \cup {<<x, y>>}
                       ELSE expected
        /\ UNCHANGED <<overflow_checks, created, walk>>

Unset(x, y) ==
    LET r == unset(map, x, y)
    IN  /\ map' = IF r.ok THEN r.val ELSE map
        /\ last' = Call("unset", <<x, y>>, IF r.ok THEN Ok(<<>>) ELSE Panicked)
        /\ expected' = IF r.ok /\ InGrid(x, y)
                       THEN expected \ {<<x, y>>}
                       ELSE expected
        /\ UNCHANGED <<overflow_checks, created, walk>>

IsSet(x, y) ==
    /\ last' = Call("is_set", <<x, y>>, is_set(map, x, y))
    /\ UNCHANGED <<overflow_checks, map, created, expected, walk>>

Size ==
    /\ last' = Call("size", <<>>, Ok(size(map)))
    /\ UNCHANGED <<overflow_checks, map, created, expected, walk>>

Clear ==
    /\ map' = clear(map)
    /\ last' = Call("clear", <<>>, Ok(<<>>))
    /\ expected' = {}
    /\ UNCHANGED <<overflow_checks, created, walk>>

IndexOf(x, y) ==
    /\ last' = Call("index_of", <<x, y>>, index_of(map, x, y))
    /\ UNCHANGED <<overflow_checks, map, created, expected, walk>>

PositionOf(idx) ==
    /\ last' = Call("position_of", <<idx>>, position_of(map, idx))
    /\ UNCHANGED <<overflow_checks, map, created, expected, walk>>

IsOpaque(idx) ==
    /\ last' = Call("is_opaque", <<idx>>, Ok(is_opaque(map, idx)))
    /\ UNCHANGED <<overflow_checks, map, created, expected, walk>>

GetAvailableExits(idx) ==
    /\ last' = Call("get_available_exits", <<idx>>, get_available_exits(map, idx))
    /\ UNCHANGED <<overflow_checks, map, created, expected, walk>>

GetPathingDistance(idx1, idx2) ==
    /\ last' = Call("get_pathing_distance", <<idx1, idx2>>,
                    get_pathing_distance(map, idx1, idx2))
    /\ UNCHANGED <<overflow_checks, map, created, expected, walk>>

(* Any call with any arguments, on any grid, the zero-size ones included *)
Next ==
    \/ \E x \in Coords, y \in Coords : Set(x, y)
    \/ \E x \in Coords, y \in Coords : Unset(x, y)
    \/ \E x \in Coords, y \in Coords : IsSet(x, y)
    \/ Size
    \/ Clear
    \/ \E x \in Coords, y \in Coords : IndexOf(x, y)
    \/ \E idx \in Indices : PositionOf(idx)
    \/ \E idx \in Indices : IsOpaque(idx)
    \/ \E idx \in Indices : GetAvailableExits(idx)
    \/ \E idx1 \in Indices, idx2 \in Indices : GetPathingDistance(idx1, idx2)

Spec == Init /\ [][Next]_vars

-----------------------------------------------------------------------------
(* Valid use of the grid: width >= 1 and height >= 1, coordinates and      *)
(* indices inside the grid                                                 *)

Xs == 0 .. (created[1] - 1)
Ys == 0 .. (created[2] - 1)
Cells == 0 .. (created[1] * created[2] - 1)

DimsUpTo(w, h, cells) == {d \in (1 .. w) \X (1 .. h) : d[1] * d[2] <= cells}

InitValid == Created(DimsUpTo(MaxValidW, MaxValidH, MaxValidCells))

NextValid ==
    \/ \E x \in Xs, y \in Ys : Set(x, y)
    \/ \E x \in Xs, y \in Ys : Unset(x, y)
    \/ \E x \in Xs, y \in Ys : IsSet(x, y)
    \/ Size
    \/ Clear
    \/ \E x \in Xs, y \in Ys : IndexOf(x, y)
    \/ \E idx \in Cells : PositionOf(idx)

SpecValid == InitValid /\ [][NextValid]_vars

-----------------------------------------------------------------------------
(* Valid use of the adapter: is_opaque and get_available_exits             *)

InitAdapter == Created(DimsUpTo(MaxAdapterW, MaxAdapterH, MaxCells))

NextAdapter ==
    \/ \E x \in Xs, y \in Ys : Set(x, y)
    \/ \E x \in Xs, y \in Ys : Unset(x, y)
    \/ Clear
    \/ \E idx \in Cells : IsOpaque(idx)
    \/ \E idx \in Cells : GetAvailableExits(idx)

SpecAdapter == InitAdapter /\ [][NextAdapter]_vars

-----------------------------------------------------------------------------
(* Valid use of the adapter: get_pathing_distance                          *)

InitDistance == Created(DimsUpTo(MaxDistCells, MaxDistCells, MaxDistCells))

NextDistance ==
    \/ \E x \in Xs, y \in Ys : Set(x, y)
    \/ \E x \in Xs, y \in Ys : Unset(x, y)
    \/ Clear
    \/ \E idx1 \in Cells, idx2 \in Cells : GetPathingDistance(idx1, idx2)

SpecDistance == InitDistance /\ [][NextDistance]_vars

-----------------------------------------------------------------------------
(* A walk: from a start cell, each step asks get_available_exits for the   *)
(* exits of the current cell and moves to one of them.  The occupancy is   *)
(* set up before the walk starts and is stable during it.                  *)

StartWalk(idx) ==
    /\ start = -1
    /\ start' = idx
    /\ pos' = idx
    /\ steps' = 0
    /\ via' = FALSE
    /\ last' = Call("start", <<idx>>, Ok(<<>>))
    /\ UNCHANGED <<overflow_checks, map, created, expected, gap>>

Step(max) ==
    LET exits == get_available_exits(map, pos)
    IN  /\ start # -1
        /\ steps < max
        /\ exits.ok
        /\ \E i \in 1 .. Len(exits.val) :
              /\ pos' = exits.val[i][1]
              /\ via' = (via \/ exits.val[i][1] = gap)
        /\ steps' = steps + 1
        /\ last' = Call("get_available_exits", <<pos>>, exits)
        /\ UNCHANGED <<overflow_checks, map, created, expected, start, gap>>

InitWalk == Created(DimsUpTo(MaxWalkCells, MaxWalkCells, MaxWalkCells))

NextWalk ==
    \/ \E x \in Xs, y \in Ys : start = -1 /\ Set(x, y)
    \/ \E x \in Xs, y \in Ys : start = -1 /\ Unset(x, y)
    \/ \E idx \in Cells : StartWalk(idx)
    \/ Step(MaxSteps)

SpecWalk == InitWalk /\ [][NextWalk]_vars

-----------------------------------------------------------------------------
(* The wall scenario: a WallSize x WallSize grid whose middle column is    *)
(* occupied in every row but the gap row g, then a walk from the left of   *)
(* the wall                                                                *)

WallColumn == WallSize \div 2
Rows == 0 .. (WallSize - 1)

RECURSIVE SetColumn(_, _, _, _)
SetColumn(self, x, ys, skip) ==
    IF ys = {} THEN self
    ELSE LET y == CHOOSE v \in ys : TRUE
             r == IF y = skip THEN Ok(self) ELSE set(self, x, y)
         IN  SetColumn(IF r.ok THEN r.val ELSE self, x, ys \ {y}, skip)

InitWall == Created({<<WallSize, WallSize>>})

BuildWall(g) ==
    /\ gap = -1
    /\ map' = SetColumn(map, WallColumn, Rows, g)
    /\ expected' = {<<WallColumn, y>> : y \in Rows \ {g}}
    /\ gap' = g * WallSize + WallColumn
    /\ last' = Call("set", <<WallColumn, g>>, Ok(<<>>))
    /\ UNCHANGED <<overflow_checks, created, start, pos, steps, via>>

StartLeft(idx) ==
    /\ gap # -1
    /\ idx % WallSize < WallColumn
    /\ StartWalk(idx)

NextWall ==
    \/ \E g \in Rows : BuildWall(g)
    \/ \E idx \in Cells : StartLeft(idx)
    \/ Step(MaxWallSteps)

SpecWall == InitWall /\ [][NextWall]_vars

-----------------------------------------------------------------------------
(* Claims *)

Width == created[1]
Height == created[2]
NonZero == Width >= 1 /\ Height >= 1
Grid(bits) == [map EXCEPT !.bitset = bits]
XOf(idx) == idx % Width
YOf(idx) == idx \div Width

(* C1: on a grid with width >= 1 and height >= 1, every set, unset or      *)
(* is_set with x >= width or y >= height aborts                            *)
C1_OutOfBoundsAborts ==
    (/\ NonZero
     /\ last.op \in {"set", "unset", "is_set"}
     /\ (last.args[1] >= Width \/ last.args[2] >= Height))
    => ~last.ret.ok

(* C2: on a grid created with width = 0 or height = 0, every set aborts,   *)
(* whether the subtraction width*height - 1 traps or wraps                 *)
C2_ZeroSizeSetAborts ==
    ((Width = 0 \/ Height = 0) /\ last.op = "set") => ~last.ret.ok

(* C9: after any calls with any arguments on any grid, every stored bit    *)
(* has an index in 0 .. width*height - 1, and width and height are the     *)
(* ones given at creation                                                  *)
C9_BitsInsideCapacity ==
    /\ map.width = Width
    /\ map.height = Height
    /\ \A idx \in map.bitset : 0 <= idx /\ idx < Width * Height

(* C3: after any sequence of in-bounds set, unset and clear calls, is_set  *)
(* of a valid cell is true exactly when a set of that cell is followed by  *)
(* no later unset of it and no later clear; size() is the creation size    *)
C3_SetUnsetClear ==
    /\ \A x \in Xs, y \in Ys : is_set(map, x, y) = Ok(<<x, y>> \in expected)
    /\ size(map) = created
    /\ (last.op \in {"set", "unset", "clear"} => last.ret.ok)
    /\ (last.op = "is_set" => last.ret = Ok(last.args \in expected))

C3_Witness ==
    /\ last.op = "unset"
    /\ last.args \notin expected
    /\ expected # {}
    /\ expected # {<<x, y>> \in Xs \X Ys : <<x, y>> # last.args}

(* C4: position_of and index_of are inverse bijections between the valid   *)
(* indices 0 .. width*height - 1 and the valid coordinates                 *)
C4_IndexBijection ==
    /\ \A idx \in Cells :
          LET p == position_of(map, idx)
          IN  /\ p = Ok(<<idx % Width, idx \div Width>>)
              /\ p.val[1] < Width
              /\ p.val[2] < Height
              /\ index_of(map, p.val[1], p.val[2]) = Ok(idx)
    /\ \A x \in Xs, y \in Ys :
          LET i == index_of(map, x, y)
          IN  /\ i = Ok(y * Width + x)
              /\ i.val < Width * Height
              /\ position_of(map, i.val) = Ok(<<x, y>>)
    /\ \A c1 \in Xs \X Ys, c2 \in Xs \X Ys :
          index_of(map, c1[1], c1[2]) = index_of(map, c2[1], c2[2]) => c1 = c2

C4_Witness ==
    /\ last.op = "position_of"
    /\ last.ret.ok
    /\ last.ret.val[1] > 0
    /\ last.ret.val[2] > 0
    /\ Width # Height

(* C5: get_available_exits of a valid index returns exactly the in-grid    *)
(* 4-adjacent unoccupied cells, each once with cost 1.0, in the order      *)
(* right, left, down, up; 4 entries for an interior cell and 2 for the     *)
(* corner 0 of an all-unoccupied grid                                      *)
Adjacent(idx) ==
    << <<XOf(idx) + 1, YOf(idx)>>, <<XOf(idx) - 1, YOf(idx)>>,
       <<XOf(idx), YOf(idx) + 1>>, <<XOf(idx), YOf(idx) - 1>> >>

Free(c) ==
    /\ c[1] \in Xs
    /\ c[2] \in Ys
    /\ (c[2] * Width + c[1]) \notin map.bitset

AdjacentFree(idx) ==
    LET free == SelectSeq(Adjacent(idx), Free)
    IN  [i \in 1 .. Len(free) |-> <<free[i][2] * Width + free[i][1], 1>>]

Interior(idx) ==
    /\ XOf(idx) > 0
    /\ XOf(idx) < Width - 1
    /\ YOf(idx) > 0
    /\ YOf(idx) < Height - 1

C5_ExactNeighbors ==
    \A idx \in Cells :
        LET e == get_available_exits(map, idx)
        IN  /\ e = Ok(AdjacentFree(idx))
            /\ \A i \in 1 .. Len(e.val) :
                  /\ e.val[i][1] \in Cells
                  /\ e.val[i][1] \notin map.bitset
                  /\ e.val[i][2] = 1
                  /\ \A j \in 1 .. Len(e.val) : e.val[i][1] = e.val[j][1] => i = j
            /\ (map.bitset = {} /\ Interior(idx)) => Len(e.val) = 4
            /\ (map.bitset = {} /\ idx = 0 /\ Width >= 2 /\ Height >= 2)
                  => e.val = << <<1, 1>>, <<Width, 1>> >>

C5_Witness ==
    /\ last.op = "get_available_exits"
    /\ Interior(last.args[1])
    /\ last.ret.ok
    /\ Len(last.ret.val) = 3
    /\ last.args[1] + 1 \in map.bitset

(* C10: get_available_exits(idx) does not depend on whether idx itself is  *)
(* occupied, and is_opaque, get_available_exits and get_pathing_distance   *)
(* leave the map as it was                                                 *)
SourceIgnored ==
    \A idx \in Cells :
        get_available_exits(Grid(map.bitset \cup {idx}), idx)
            = get_available_exits(Grid(map.bitset \ {idx}), idx)

Queries == {"is_opaque", "get_available_exits", "get_pathing_distance"}

C8_DistanceIsEuclidean ==
    \A a \in Cells, b \in Cells :
        LET d == get_pathing_distance(map, a, b)
            dx == XOf(a) - XOf(b)
            dy == YOf(a) - YOf(b)
        IN  /\ d.ok
            /\ get_pathing_distance(map, a, a) = Ok([sqrt_of |-> 0])
            /\ d.val.sqrt_of >= 0
            /\ d = get_pathing_distance(map, b, a)
            /\ (d.val.sqrt_of = 0 => a = b)
            /\ d.val.sqrt_of = dx * dx + dy * dy

C8_Witness ==
    /\ last.op = "get_pathing_distance"
    /\ last.ret = Ok([sqrt_of |-> 2])
    /\ last.args[1] > last.args[2]
    /\ map.bitset # {}

(* C7: if b is reached from a by L steps along get_available_exits, then   *)
(* get_pathing_distance(a, b) <= L, that is dx*dx + dy*dy <= L*L           *)
C7_Admissible ==
    start # -1 =>
        LET d == get_pathing_distance(map, start, pos)
        IN  /\ d.ok
            /\ d.val.sqrt_of <= (steps * UnitCost) * (steps * UnitCost)

C7_Witness ==
    /\ start # -1
    /\ steps = 2
    /\ get_pathing_distance(map, start, pos) = Ok([sqrt_of |-> 4])
    /\ map.bitset # {}

(* C6: on the 5x5 grid with the middle column occupied but for the gap,    *)
(* every walk from the left of the wall that reaches the right of it has   *)
(* passed the gap cell, and the least number of steps from a cell on the   *)
(* left to a cell on the right is |xs-2| + |ys-g| + |xt-2| + |yt-g|        *)
RECURSIVE Layers(_, _, _, _)
Layers(self, frontier, seen, k) ==
    IF frontier = {} THEN {}
    ELSE LET next == UNION {{e[1] : e \in Range(get_available_exits(self, c).val)}
                            : c \in frontier} \ seen
         IN  {<<c, k>> : c \in frontier} \cup Layers(self, next, seen \cup next, k + 1)

MinSteps(self, s, t) ==
    LET at == {l \in Layers(self, {s}, {s}, 0) : l[1] = t}
    IN  IF at = {} THEN -1 ELSE (CHOOSE l \in at : TRUE)[2]

ThroughGap(s, t) ==
    Abs(XOf(s) - WallColumn) + Abs(YOf(s) - YOf(gap))
        + Abs(XOf(t) - WallColumn) + Abs(YOf(t) - YOf(gap))

RightOfWall == {c \in Cells : XOf(c) > WallColumn}

C6_RouteThroughGap ==
    (gap # -1 /\ start # -1) =>
        /\ pos \in RightOfWall => (via /\ steps >= ThroughGap(start, pos))
        /\ steps = 0 =>
              \A t \in RightOfWall : MinSteps(map, start, t) = ThroughGap(start, t)

C6_Witness ==
    /\ gap # -1
    /\ start # -1
    /\ pos \in RightOfWall
    /\ YOf(start) # YOf(gap)
    /\ YOf(pos) # YOf(gap)
    /\ steps = ThroughGap(start, pos)

====
